---- MODULE Spec2Model ----
(***************************************************************************)
(* Template Update Synchronizer: the check / apply update flow of the      *)
(* dashboard, its protected-file validation (update-protection) and the    *)
(* GitHub commit pipeline (github-update).                                 *)
(*                                                                         *)
(* Strings that the code inspects character by character (paths, glob      *)
(* patterns) are sequences of one-character strings.                       *)
(***************************************************************************)
EXTENDS Integers, Sequences, FiniteSets, TLC

(***************************************************************************)
(* Bounds of the model.                                                    *)
(***************************************************************************)
MaxFiles == 2
MaxCalls == 2

(***************************************************************************)
(* Character-sequence helpers.                                             *)
(***************************************************************************)
HasPrefix(s, p) == Len(s) >= Len(p) /\ SubSeq(s, 1, Len(p)) = p

HasSuffix(s, p) == Len(s) >= Len(p) /\ SubSeq(s, Len(s) - Len(p) + 1, Len(s)) = p

Includes(s, p) == \E i \in 1..(Len(s) - Len(p) + 1) : SubSeq(s, i, i + Len(p) - 1) = p

RECURSIVE TrimLeft(_)
TrimLeft(s) == IF s # <<>> /\ Head(s) = " " THEN TrimLeft(Tail(s)) ELSE s

RECURSIVE TrimRight(_)
TrimRight(s) ==
  IF s # <<>> /\ s[Len(s)] = " " THEN TrimRight(SubSeq(s, 1, Len(s) - 1)) ELSE s

Trim(s) == TrimRight(TrimLeft(s))

\* s.replace(/from/g, to) for a one-character from.
RECURSIVE ReplaceChar(_, _, _)
ReplaceChar(s, from, to) ==
  IF s = <<>> THEN <<>>
  ELSE <<IF Head(s) = from THEN to ELSE Head(s)>> \o ReplaceChar(Tail(s), from, to)

\* The segments of s between "/" characters (empty segments kept).
RECURSIVE SplitSlash(_, _)
SplitSlash(s, cur) ==
  IF s = <<>> THEN <<cur>>
  ELSE IF Head(s) = "/" THEN <<cur>> \o SplitSlash(Tail(s), <<>>)
  ELSE SplitSlash(Tail(s), Append(cur, Head(s)))

RECURSIVE JoinSlash(_)
JoinSlash(segs) ==
  IF segs = <<>> THEN <<>>
  ELSE IF Len(segs) = 1 THEN Head(segs)
  ELSE Head(segs) \o <<"/">> \o JoinSlash(Tail(segs))

(***************************************************************************)
(* path.normalize of Node (POSIX flavour), as normalizePath calls it:      *)
(* empty and "." segments are dropped, ".." removes the segment before it  *)
(* when there is one (and it is not ".." itself), a leading and a trailing *)
(* separator are kept, and the empty result is ".".                        *)
(***************************************************************************)
Dot == <<".">>
DotDot == <<".", ".">>

RECURSIVE NormalizeSegments(_, _, _)
NormalizeSegments(segs, acc, allowAboveRoot) ==
  IF segs = <<>> THEN acc
  ELSE LET s == Head(segs)
           rest == Tail(segs)
       IN  IF s = <<>> \/ s = Dot THEN NormalizeSegments(rest, acc, allowAboveRoot)
           ELSE IF s = DotDot
             THEN IF acc # <<>> /\ acc[Len(acc)] # DotDot
                    THEN NormalizeSegments(rest, SubSeq(acc, 1, Len(acc) - 1), allowAboveRoot)
                    ELSE IF allowAboveRoot
                      THEN NormalizeSegments(rest, Append(acc, DotDot), allowAboveRoot)
                      ELSE NormalizeSegments(rest, acc, allowAboveRoot)
             ELSE NormalizeSegments(rest, Append(acc, s), allowAboveRoot)

PathIsAbsolute(s) == s # <<>> /\ Head(s) = "/"

PathNormalize(s) ==
  IF s = <<>> THEN Dot
  ELSE LET isAbsolute == PathIsAbsolute(s)
           trailingSeparator == s[Len(s)] = "/"
           body == JoinSlash(NormalizeSegments(SplitSlash(s, <<>>), <<>>, ~isAbsolute))
       IN  IF body = <<>>
             THEN IF isAbsolute THEN <<"/">>
                  ELSE IF trailingSeparator THEN <<".", "/">> ELSE Dot
             ELSE (IF isAbsolute THEN <<"/">> ELSE <<>>) \o body
                  \o (IF trailingSeparator THEN <<"/">> ELSE <<>>)

(***************************************************************************)
(* normalizePath: null for a rejected path.  Null and NonString are not    *)
(* character sequences: Null is the null result, NonString stands for a    *)
(* manifest entry that is not a string.                                    *)
(***************************************************************************)
Null == <<"<null>">>
NonString == <<"<non-string>">>

normalizePath(filePath) ==
  IF filePath = <<>> \/ filePath = NonString THEN Null
  ELSE LET normalized == ReplaceChar(PathNormalize(Trim(filePath)), "\\", "/")
       IN  IF PathIsAbsolute(normalized) THEN Null
           ELSE IF Includes(normalized, DotDot) THEN Null
           ELSE IF HasPrefix(normalized, <<"/">>) THEN Null
           ELSE normalized

(***************************************************************************)
(* HARDCODED_PROTECTED_PATTERNS: each regular expression of the list as    *)
(* the test it performs on the normalized path.                            *)
(***************************************************************************)
HardcodedPrefixes ==
  { <<".", "e", "n", "v">>,
    <<"n", "e", "x", "t", ".", "c", "o", "n", "f", "i", "g", ".">>,
    <<"s", "u", "p", "a", "b", "a", "s", "e", "/", "m", "i", "g", "r", "a", "t", "i", "o", "n", "s", "/">>,
    <<".", "v", "e", "r", "c", "e", "l", "/">>,
    <<".", "g", "i", "t", "/">>,
    <<".", "v", "o", "z", "s", "m", "a", "r", "t", "-", "b", "a", "c", "k", "u", "p", "s", "/">>,
    <<"t", "m", "p", "/">>,
    <<"n", "o", "d", "e", "_", "m", "o", "d", "u", "l", "e", "s", "/">> ,
    <<".", "n", "e", "x", "t", "/">>,
    <<"o", "u", "t", "/">> }

ConfigFileName ==
  <<"v", "o", "z", "s", "m", "a", "r", "t", ".", "c", "o", "n", "f", "i", "g", ".", "j", "s", "o", "n">>

HardcodedExact ==
  { ConfigFileName,
    <<"p", "a", "c", "k", "a", "g", "e", ".", "j", "s", "o", "n">>,
    <<"p", "a", "c", "k", "a", "g", "e", "-", "l", "o", "c", "k", ".", "j", "s", "o", "n">> }

HardcodedSuffixes == { <<".", "l", "o", "g">> }

MatchesHardcoded(normalized) ==
  \/ \E p \in HardcodedPrefixes : HasPrefix(normalized, p)
  \/ normalized \in HardcodedExact
  \/ \E p \in HardcodedSuffixes : HasSuffix(normalized, p)

(***************************************************************************)
(* patternToTest: the glob is rewritten into the source of a regular       *)
(* expression by five replacements in the code's order, then compiled and  *)
(* tested anchored at both ends.  The regular-expression source is a       *)
(* sequence of characters in which the texts inserted by a replacement are *)
(* single elements.                                                        *)
(***************************************************************************)
RegexSpecials == {".", "+", "?", "^", "$", "{", "}", "(", ")", "|", "[", "]", "\\"}

\* .replace(/[.+?^${}()|[\]\\]/g, '\\$&')
RECURSIVE EscapeSpecials(_)
EscapeSpecials(s) ==
  IF s = <<>> THEN <<>>
  ELSE (IF Head(s) \in RegexSpecials THEN <<"\\", Head(s)>> ELSE <<Head(s)>>)
       \o EscapeSpecials(Tail(s))

\* .replace(/\*\*/g, '__DOUBLE_STAR__')
RECURSIVE ReplaceDoubleStar(_)
ReplaceDoubleStar(s) ==
  IF s = <<>> THEN <<>>
  ELSE IF Len(s) >= 2 /\ s[1] = "*" /\ s[2] = "*"
    THEN <<"__DOUBLE_STAR__">> \o ReplaceDoubleStar(SubSeq(s, 3, Len(s)))
    ELSE <<Head(s)>> \o ReplaceDoubleStar(Tail(s))

\* .replace(/\*/g, '[^/]*').replace(/__DOUBLE_STAR__/g, '.*').replace(/\?/g, '.')
GlobToRegexSource(pattern) ==
  ReplaceChar(
    ReplaceChar(
      ReplaceChar(ReplaceDoubleStar(EscapeSpecials(pattern)), "*", "[^/]*"),
      "__DOUBLE_STAR__", ".*"),
    "?", ".")

\* new RegExp(source): a backslash makes the next character literal, "." is
\* any character, "[^/]*" any run without a separator, ".*" any run.
RECURSIVE CompileRegex(_)
CompileRegex(src) ==
  IF src = <<>> THEN <<>>
  ELSE IF Head(src) = "\\" /\ Len(src) >= 2
    THEN <<[k |-> "lit", c |-> src[2]]>> \o CompileRegex(SubSeq(src, 3, Len(src)))
  ELSE IF Head(src) = "." THEN <<[k |-> "any", c |-> "."]>> \o CompileRegex(Tail(src))
  ELSE IF Head(src) = "[^/]*" THEN <<[k |-> "run", c |-> "/"]>> \o CompileRegex(Tail(src))
  ELSE IF Head(src) = ".*" THEN <<[k |-> "run", c |-> ""]>> \o CompileRegex(Tail(src))
  ELSE <<[k |-> "lit", c |-> Head(src)]>> \o CompileRegex(Tail(src))

\* regex.test(s) for a regex anchored with ^ and $.
RECURSIVE RegexTest(_, _)
RegexTest(toks, s) ==
  IF toks = <<>> THEN s = <<>>
  ELSE LET t == Head(toks)
       IN  CASE t.k = "lit" -> s # <<>> /\ Head(s) = t.c /\ RegexTest(Tail(toks), Tail(s))
             [] t.k = "any" -> s # <<>> /\ RegexTest(Tail(toks), Tail(s))
             [] t.k = "run" -> \/ RegexTest(Tail(toks), s)
                               \/ s # <<>> /\ Head(s) # t.c /\ RegexTest(toks, Tail(s))

patternToTest(pattern, filePath) == RegexTest(CompileRegex(GlobToRegexSource(pattern)), filePath)

\* isProtectedFile that lets a path through when normalizePath rejects it.
isProtectedFileFailOpen(filePath, protectedPatterns) ==
  LET normalized == normalizePath(filePath)
  IN  IF normalized = Null THEN FALSE
      ELSE IF MatchesHardcoded(normalized) THEN TRUE
      ELSE \E i \in 1..Len(protectedPatterns) : patternToTest(protectedPatterns[i], normalized)

\* isProtectedFile that tests the last configured pattern only.
isProtectedFileLastPatternOnly(filePath, protectedPatterns) ==
  LET normalized == normalizePath(filePath)
  IN  IF normalized = Null THEN TRUE
      ELSE IF MatchesHardcoded(normalized) THEN TRUE
      ELSE /\ protectedPatterns # <<>>
           /\ patternToTest(protectedPatterns[Len(protectedPatterns)], normalized)

\* isProtectedFile without the loop over HARDCODED_PROTECTED_PATTERNS.
isProtectedFileConfiguredOnly(filePath, protectedPatterns) ==
  LET normalized == normalizePath(filePath)
  IN  IF normalized = Null THEN TRUE
      ELSE \E i \in 1..Len(protectedPatterns) : patternToTest(protectedPatterns[i], normalized)

(***************************************************************************)
(* isProtectedFile and validateFilesToUpdate.                              *)
(***************************************************************************)
isProtectedFile(filePath, protectedPatterns) ==
  LET normalized == normalizePath(filePath)
  IN  IF normalized = Null THEN TRUE
      ELSE IF MatchesHardcoded(normalized) THEN TRUE
      ELSE \E i \in 1..Len(protectedPatterns) : patternToTest(protectedPatterns[i], normalized)

\* BlockedOf that reports the normalized form of a blocked entry.
RECURSIVE BlockedOfNormalized(_, _)
BlockedOfNormalized(files, protectedPatterns) ==
  IF files = <<>> THEN <<>>
  ELSE (IF isProtectedFile(Head(files), protectedPatterns)
          THEN <<normalizePath(Head(files))>> ELSE <<>>)
       \o BlockedOfNormalized(Tail(files), protectedPatterns)

RECURSIVE BlockedOf(_, _)
BlockedOf(files, protectedPatterns) ==
  IF files = <<>> THEN <<>>
  ELSE (IF isProtectedFile(Head(files), protectedPatterns) THEN <<Head(files)>> ELSE <<>>)
       \o BlockedOf(Tail(files), protectedPatterns)

validateFilesToUpdate(files, protectedPatterns) ==
  LET blocked == BlockedOf(files, protectedPatterns)
  IN  [valid |-> (blocked = <<>>), blocked |-> blocked]

(***************************************************************************)
(* The values the model draws its inputs from.                             *)
(***************************************************************************)
PLibFoo == <<"l", "i", "b", "/", "f", "o", "o", ".", "t", "s">>
PEnv == <<".", "e", "n", "v">>
PEscape == <<".", ".", "/", "x">>
PAsset == <<"a", "s", "s", "e", "t", "s", "/", "l", "o", "g", "o", ".", "p", "n", "g">>
GlobAssets == <<"a", "s", "s", "e", "t", "s", "/", "*", "*">>

\* Entries a manifest's filesToUpdate may hold.
RawPaths == {PLibFoo, PEnv, PEscape, PAsset}

\* The files of the working tree (and of the repository) the entries name.
TreePaths == {normalizePath(r) : r \in RawPaths} \ {Null}

FileListsUpTo(n) == UNION {[1..k -> RawPaths] : k \in 0..n}

\* Manifests of the template repository: every file list for an update to
\* 1.1.0, and the short ones for a manifest at the installed version and for
\* one that is lexically older.
Manifests ==
  {[version |-> "1.1.0", filesToUpdate |-> fl] : fl \in FileListsUpTo(MaxFiles)}
  \cup {[version |-> v, filesToUpdate |-> fl] :
          v \in {"0.9.0", "1.0.0"}, fl \in FileListsUpTo(MaxFiles - 1)}


Absent == "<absent>"
OldContent == "old"
NewContent == "new"

\* Working trees a deployment starts from: every file present, or only some.
DiskAll == [p \in TreePaths |-> OldContent]
DiskSome == [p \in TreePaths |-> IF p \in {PAsset, PEnv} THEN OldContent ELSE Absent]

InitialConfig(present, pats) ==
  [ present |-> present, coreVersion |-> "1.0.0", lastUpdate |-> 0,
    templateRepo |-> "owner/template", templateBranch |-> "main",
    protectedFiles |-> pats ]

\* Deployments: configured instances on a writable tree (with and without
\* configured patterns), one on a serverless runtime, and an instance without
\* vozsmart.config.json.
Deployments ==
  { [config |-> InitialConfig(TRUE, <<>>), disk |-> DiskSome, serverless |-> FALSE],
    [config |-> InitialConfig(TRUE, <<GlobAssets>>), disk |-> DiskAll, serverless |-> FALSE],
    [config |-> InitialConfig(TRUE, <<>>), disk |-> DiskAll, serverless |-> TRUE],
    [config |-> InitialConfig(FALSE, <<>>), disk |-> DiskAll, serverless |-> FALSE] }

(***************************************************************************)
(* Inputs of the calls of normalizePath, isProtectedFile and                *)
(* validateFilesToUpdate taken on their own.                               *)
(***************************************************************************)
PEnvProduction == <<".", "e", "n", "v", ".", "p", "r", "o", "d", "u", "c", "t", "i", "o", "n">>
PPackageLock == <<"p", "a", "c", "k", "a", "g", "e", "-", "l", "o", "c", "k", ".", "j", "s", "o", "n">>
PMigration == <<"s", "u", "p", "a", "b", "a", "s", "e", "/", "m", "i", "g", "r", "a", "t", "i", "o", "n", "s", "/", "x", ".", "s", "q", "l">>
PGitConfig == <<".", "g", "i", "t", "/", "c", "o", "n", "f", "i", "g">>
PAssetImg == <<"a", "s", "s", "e", "t", "s", "/", "i", "m", "g", "/", "l", "o", "g", "o", ".", "p", "n", "g">>
PAssets2Img == <<"a", "s", "s", "e", "t", "s", "2", "/", "i", "m", "g", "/", "l", "o", "g", "o", ".", "p", "n", "g">>
PInnerParent == <<"a", "/", "b", "/", ".", ".", "/", "c">>
PAbsolute == <<"/", "e", "t", "c", "/", "p", "a", "s", "s", "w", "d">>
PDotEnv == <<".", "/", ".", "e", "n", "v">>
PLibSubFoo == <<"l", "i", "b", "/", "s", "u", "b", "/", "f", "o", "o", ".", "t", "s">>
PBlank == <<" ">>
GlobLibTs == <<"l", "i", "b", "/", "*", ".", "t", "s">>
GlobLibFoQ == <<"l", "i", "b", "/", "f", "o", "?", ".", "t", "s">>
GlobLibFooQ == <<"l", "i", "b", "/", "f", "o", "o", "?", "t", "s">>

\* Manifest entries: the examples of built-in protected files, ordinary files,
\* paths with a parent-directory segment, an absolute path, and entries that
\* are empty, blank or not a string.
BuiltInExamples == {PEnv, PEnvProduction, ConfigFileName, PPackageLock, PMigration, PGitConfig}

ProbePaths ==
  BuiltInExamples
  \cup {PLibFoo, PLibSubFoo, PAssetImg, PAssets2Img, PDotEnv}
  \cup {PInnerParent, PEscape, PAbsolute}
  \cup {<<>>, PBlank, NonString}

\* Values of config.protectedFiles.
ProbePatternLists ==
  { <<>>, <<GlobAssets>>, <<GlobLibTs>>, <<GlobLibFoQ>>, <<GlobLibFooQ>>,
    <<GlobLibTs, GlobAssets>> }

ProbeLists == UNION {[1..k -> ProbePaths] : k \in 0..MaxFiles}

(***************************************************************************)
(* State.                                                                  *)
(***************************************************************************)
VARIABLES
  config,      \* vozsmart.config.json under process.cwd()
  disk,        \* the other files under process.cwd(): path -> content or Absent
  backupDir,   \* the files of the backup directory of the running apply
  serverless,  \* process.env.VERCEL === '1': only /tmp accepts writes
  manifest,    \* version.json of the template repository
  repo,        \* the branch of the deployment's GitHub repository
  pc,          \* position of the request being served ("idle", "done" between requests)
  loc,         \* the handler's local variables
  result,      \* the response of the request last served
  log,         \* the file and network operations of the request being served, in order
  pre,         \* disk, config and repo as they were when the request began, and
               \* whether the request before it was an Apply that went through
  checks,      \* the request served just before this one, when it was a Check
  calls,       \* number of requests begun
  parked       \* a request suspended at an await while another one runs

vars ==
  <<config, disk, backupDir, serverless, manifest, repo, pc, loc, result, log, pre, checks,
    calls, parked>>

\* No request is suspended.
NoParked == <<>>

NoBackup == [p \in TreePaths |-> Absent]

NoLoc ==
  [ op |-> "none", authOk |-> FALSE, fetch |-> "none",
    cfg |-> [present |-> FALSE], latestVersion |-> "", files |-> <<>>, i |-> 0,
    updatedFiles |-> <<>>, failedFiles |-> <<>>, filesToCommit |-> <<>>,
    parentSha |-> 0, blobShas |-> <<>>, treeBuilt |-> FALSE, commitData |-> [paths |-> {}],
    commitResults |-> [kind |-> "none"], configSha |-> 0, configCommit |-> 0,
    redeploy |-> "none", redeployTriggered |-> FALSE ]

NoResult ==
  [ op |-> "none", status |-> 0, success |-> FALSE, kind |-> "none",
    current |-> "null", latest |-> "null", hasUpdate |-> FALSE, filesToUpdate |-> <<>>,
    blocked |-> <<>>, failed |-> <<>>, version |-> "", filesUpdated |-> 0,
    redeployTriggered |-> FALSE ]

Init ==
  /\ \E d \in Deployments :
       /\ config = d.config
       /\ disk = d.disk
       /\ serverless = d.serverless
       /\ manifest \in IF d.config.present THEN Manifests
                       ELSE {[version |-> "1.1.0", filesToUpdate |-> <<PLibFoo>>]}
  /\ backupDir = NoBackup
  /\ repo = [ commits |-> <<>>,
              files |-> [p \in TreePaths |-> OldContent],
              config |-> [ coreVersion |-> "1.0.0", lastUpdate |-> 0,
                           templateRepo |-> "owner/template", templateBranch |-> "main",
                           protectedFiles |-> config.protectedFiles ] ]
  /\ pc = "idle"
  /\ loc = NoLoc
  /\ result = NoResult
  /\ log = <<>>
  /\ pre = [disk |-> disk, config |-> config, repo |-> repo, applied |-> "none"]
  /\ checks = <<>>
  /\ calls = 0
  /\ parked = NoParked

(***************************************************************************)
(* In Spec a request begins when none is being served: requests are served *)
(* one after another.  SpecConcurrent lets a second request run while one  *)
(* is suspended.                                                           *)
(***************************************************************************)
CanBegin == pc \in {"idle", "done"} /\ calls < MaxCalls

\* The request that has just returned was an Apply that went through to the
\* end: it wrote the state record (filesystem mode, route.ts:311) or committed
\* it to the branch (remote mode, route.ts:489).
AppliedBy ==
  IF /\ pc = "done"
     /\ loc.op \in {"applyFs", "applyGh"}
     /\ \E i \in 1..Len(log) : log[i].e \in {"writeConfig", "putConfig"}
    THEN loc.op
    ELSE "none"

Begin(op) ==
  /\ CanBegin
  /\ calls' = calls + 1
  /\ pre' = [disk |-> disk, config |-> config, repo |-> repo, applied |-> AppliedBy]
  /\ checks' = IF result.op = "check"
                THEN <<[authOk |-> loc.authOk, fetch |-> loc.fetch, result |-> result]>>
                ELSE <<>>

\* The handler returns (or its catch block answers) with this response.
Respond(r) ==
  /\ result' = r
  /\ pc' = "done"

FetchOutcomes == {"ok", "notFound", "error"}

\* No fetch of the handlers is given a signal or a timeout: a call whose
\* endpoint does not answer leaves the handler awaiting.
Unanswered == "never"

Hangs(op, env) ==
  /\ pc' = "hung"
  /\ result' = NoResult
  /\ loc' = [NoLoc EXCEPT !.op = op, !.authOk = env.authOk, !.fetch = env.fetch]
  /\ log' = <<[e |-> "fetchManifest", p |-> <<>>], [e |-> "noResponse", p |-> <<>>]>>

\* The locals of a handler once it has authenticated and fetched.
StartLoc(op, env) == [NoLoc EXCEPT !.op = op, !.authOk = env.authOk, !.fetch = env.fetch]

\* What a request meets before it touches a file: whether the caller is
\* authenticated and how the manifest fetch answers (a fetch is only made
\* for an authenticated caller).
RequestEnvs ==
  {[authOk |-> FALSE, fetch |-> "ok"]}
  \cup {[authOk |-> TRUE, fetch |-> f] : f \in FetchOutcomes \cup {Unanswered}}

\* The manifest fetch of this request is never answered.
FetchUnanswered(env) == env.authOk /\ config.present /\ env.fetch = Unanswered

(***************************************************************************)
(* GET /api/updates/check                                                  *)
(***************************************************************************)
\* HasUpdate that reports only a manifest version above the installed one.
HasUpdateNewerOnly(currentVersion, latestVersion) ==
  <<currentVersion, latestVersion>> \in
     {<<"0.9.0", "1.0.0">>, <<"0.9.0", "1.1.0">>, <<"1.0.0", "1.1.0">>}

\* Line 115: plain string inequality.
HasUpdate(currentVersion, latestVersion) == currentVersion # latestVersion

\* CheckResponse that looks for vozsmart.config.json before authenticating.
CheckResponseConfigFirst(authOk, cfg, fetch, man) ==
  LET base == [NoResult EXCEPT !.op = "check"]
      validation == validateFilesToUpdate(man.filesToUpdate, cfg.protectedFiles)
  IN  IF ~cfg.present THEN [base EXCEPT !.status = 404, !.kind = "notConfigured"]
      ELSE IF ~authOk THEN [base EXCEPT !.status = 401, !.kind = "unauthorized"]
      ELSE IF fetch = "notFound"
        THEN [base EXCEPT !.status = 404, !.kind = "manifestNotFound",
                          !.current = cfg.coreVersion]
      ELSE IF fetch = "error" THEN [base EXCEPT !.status = 500, !.kind = "error"]
      ELSE IF ~validation.valid
        THEN [base EXCEPT !.status = 403, !.kind = "security",
                          !.current = cfg.coreVersion, !.latest = man.version,
                          !.hasUpdate = FALSE, !.filesToUpdate = <<>>,
                          !.blocked = validation.blocked]
      ELSE [base EXCEPT !.status = 200, !.kind = "ok", !.success = TRUE,
                        !.current = cfg.coreVersion, !.latest = man.version,
                        !.hasUpdate = cfg.coreVersion # man.version,
                        !.filesToUpdate = man.filesToUpdate]

\* CheckResponse that validates the file list only when the versions are equal.
CheckResponseVersionFirst(authOk, cfg, fetch, man) ==
  LET base == [NoResult EXCEPT !.op = "check"]
      validation == validateFilesToUpdate(man.filesToUpdate, cfg.protectedFiles)
  IN  IF ~authOk THEN [base EXCEPT !.status = 401, !.kind = "unauthorized"]
      ELSE IF ~cfg.present THEN [base EXCEPT !.status = 404, !.kind = "notConfigured"]
      ELSE IF fetch = "notFound"
        THEN [base EXCEPT !.status = 404, !.kind = "manifestNotFound",
                          !.current = cfg.coreVersion]
      ELSE IF fetch = "error" THEN [base EXCEPT !.status = 500, !.kind = "error"]
      ELSE IF ~validation.valid /\ cfg.coreVersion = man.version
        THEN [base EXCEPT !.status = 403, !.kind = "security",
                          !.current = cfg.coreVersion, !.latest = man.version,
                          !.hasUpdate = FALSE, !.filesToUpdate = <<>>,
                          !.blocked = validation.blocked]
      ELSE [base EXCEPT !.status = 200, !.kind = "ok", !.success = TRUE,
                        !.current = cfg.coreVersion, !.latest = man.version,
                        !.hasUpdate = cfg.coreVersion # man.version,
                        !.filesToUpdate = man.filesToUpdate]

CheckResponse(authOk, cfg, fetch, man) ==
  LET base == [NoResult EXCEPT !.op = "check"]
      validation == validateFilesToUpdate(man.filesToUpdate, cfg.protectedFiles)
  IN  IF ~authOk THEN [base EXCEPT !.status = 401, !.kind = "unauthorized"]
      ELSE IF ~cfg.present THEN [base EXCEPT !.status = 404, !.kind = "notConfigured"]
      ELSE IF fetch = "notFound"
        THEN [base EXCEPT !.status = 404, !.kind = "manifestNotFound",
                          !.current = cfg.coreVersion]
      ELSE IF fetch = "error" THEN [base EXCEPT !.status = 500, !.kind = "error"]
      ELSE IF ~validation.valid
        THEN [base EXCEPT !.status = 403, !.kind = "security",
                          !.current = cfg.coreVersion, !.latest = man.version,
                          !.hasUpdate = FALSE, !.filesToUpdate = <<>>,
                          !.blocked = validation.blocked]
      ELSE [base EXCEPT !.status = 200, !.kind = "ok", !.success = TRUE,
                        !.current = cfg.coreVersion, !.latest = man.version,
                        !.hasUpdate = HasUpdate(cfg.coreVersion, man.version),
                        !.filesToUpdate = man.filesToUpdate]

\* Check that records the time of the check in vozsmart.config.json.
CheckMutating ==
  /\ Begin("check")
  /\ \E env \in RequestEnvs :
       IF FetchUnanswered(env) THEN Hangs("check", env) /\ config' = config
       ELSE
       /\ Respond(CheckResponse(env.authOk, config, env.fetch, manifest))
       /\ log' = IF env.authOk /\ config.present
                   THEN <<[e |-> "fetchManifest", p |-> <<>>]>> ELSE <<>>
       /\ loc' = StartLoc("check", env)
       /\ config' = IF env.authOk /\ config.present
                      THEN [config EXCEPT !.lastUpdate = calls + 1] ELSE config
  /\ UNCHANGED <<disk, backupDir, serverless, manifest, repo, parked>>

Check ==
  /\ Begin("check")
  /\ \E env \in RequestEnvs :
       IF FetchUnanswered(env) THEN Hangs("check", env)
       ELSE
       /\ Respond(CheckResponse(env.authOk, config, env.fetch, manifest))
       /\ log' = IF env.authOk /\ config.present
                   THEN <<[e |-> "fetchManifest", p |-> <<>>]>> ELSE <<>>
       /\ loc' = StartLoc("check", env)
  /\ UNCHANGED <<config, disk, backupDir, serverless, manifest, repo, parked>>

(***************************************************************************)
(* POST apply, filesystem mode.                                            *)
(***************************************************************************)
Ev(e, p) == [e |-> e, p |-> p]

ApplyFailure(op, status, kind) ==
  [NoResult EXCEPT !.op = op, !.status = status, !.kind = kind]

\* ApplyPrecheck without step 4 (the validation of filesToUpdate).
ApplyPrecheckUnvalidated(op, authOk, cfg, fetch, man) ==
  IF ~authOk THEN ApplyFailure(op, 401, "unauthorized")
  ELSE IF ~cfg.present THEN ApplyFailure(op, 404, "notConfigured")
  ELSE IF fetch # "ok" THEN ApplyFailure(op, 500, "error")
  ELSE IF cfg.coreVersion = man.version THEN ApplyFailure(op, 400, "upToDate")
  ELSE NoResult

\* ApplyPrecheck without step 3 (the refusal of an equal version).
ApplyPrecheckAnyVersion(op, authOk, cfg, fetch, man) ==
  LET validation == validateFilesToUpdate(man.filesToUpdate, cfg.protectedFiles)
  IN  IF ~authOk THEN ApplyFailure(op, 401, "unauthorized")
      ELSE IF ~cfg.present THEN ApplyFailure(op, 404, "notConfigured")
      ELSE IF fetch # "ok" THEN ApplyFailure(op, 500, "error")
      ELSE IF ~validation.valid
        THEN [ApplyFailure(op, 403, "security") EXCEPT !.blocked = validation.blocked]
      ELSE NoResult

\* Steps 1-4 shared by both apply handlers: the response that ends the
\* request before any file is touched, or NoResult to go on.
ApplyPrecheck(op, authOk, cfg, fetch, man) ==
  LET validation == validateFilesToUpdate(man.filesToUpdate, cfg.protectedFiles)
  IN  IF ~authOk THEN ApplyFailure(op, 401, "unauthorized")
      ELSE IF ~cfg.present THEN ApplyFailure(op, 404, "notConfigured")
      ELSE IF fetch # "ok" THEN ApplyFailure(op, 500, "error")
      ELSE IF cfg.coreVersion = man.version THEN ApplyFailure(op, 400, "upToDate")
      ELSE IF ~validation.valid
        THEN [ApplyFailure(op, 403, "security") EXCEPT !.blocked = validation.blocked]
      ELSE NoResult

PrecheckLog(authOk, cfg) ==
  IF authOk /\ cfg.present THEN <<Ev("fetchManifest", <<>>)>> ELSE <<>>

\* Whether a write below process.cwd() can succeed at all.
WriteOutcomes == IF serverless THEN {FALSE} ELSE BOOLEAN

\* Lines 99-194: authentication, config, manifest, version test, validation,
\* creation of the backup directory.
ApplyFsBegin ==
  /\ Begin("applyFs")
  /\ \E env \in RequestEnvs :
       LET early == ApplyPrecheck("applyFs", env.authOk, config, env.fetch, manifest)
       IN  IF FetchUnanswered(env) THEN Hangs("applyFs", env)
           ELSE IF early # NoResult
             THEN /\ Respond(early)
                  /\ loc' = StartLoc("applyFs", env)
                  /\ log' = PrecheckLog(env.authOk, config)
             ELSE \E mkdirOk \in BOOLEAN :
               IF ~mkdirOk
               THEN /\ Respond(ApplyFailure("applyFs", 500, "error"))
                    /\ loc' = StartLoc("applyFs", env)
                    /\ log' = PrecheckLog(env.authOk, config)
               ELSE /\ pc' = "fsBackup"
                    /\ result' = NoResult
                    /\ loc' = [StartLoc("applyFs", env) EXCEPT
                                 !.cfg = config, !.latestVersion = manifest.version,
                                 !.files = manifest.filesToUpdate, !.i = 1]
                    /\ log' = PrecheckLog(env.authOk, config) \o <<Ev("mkBackupDir", <<>>)>>
  /\ backupDir' = NoBackup
  /\ UNCHANGED <<config, disk, serverless, manifest, repo, parked>>

\* Lines 200-213, one iteration: copy the file to the backup directory when
\* it exists.  A copy that throws ends the request in the outer catch.
FsBackupStep ==
  /\ pc = "fsBackup"
  /\ IF loc.i > Len(loc.files)
       THEN /\ pc' = "fsWrite"
            /\ loc' = [loc EXCEPT !.i = 1]
            /\ UNCHANGED <<backupDir, log, result>>
       ELSE LET normalized == normalizePath(loc.files[loc.i])
            IN  IF normalized = Null \/ disk[normalized] = Absent
                  THEN /\ loc' = [loc EXCEPT !.i = @ + 1]
                       /\ UNCHANGED <<backupDir, log, result, pc>>
                  ELSE \E copyOk \in BOOLEAN :
                         IF copyOk
                           THEN /\ backupDir' = [backupDir EXCEPT ![normalized] = disk[normalized]]
                                /\ log' = Append(log, Ev("backup", normalized))
                                /\ loc' = [loc EXCEPT !.i = @ + 1]
                                /\ UNCHANGED <<result, pc>>
                           ELSE /\ Respond(ApplyFailure("applyFs", 500, "error"))
                                /\ UNCHANGED <<backupDir, log, loc>>
  /\ UNCHANGED <<config, disk, serverless, manifest, repo, pre, checks, calls, parked>>

Failed(file, error) == [file |-> file, error |-> error]

\* AfterWriteLoop that goes on to the config write whatever failed.
AfterWriteLoopAlwaysConfig(failedFiles) == "fsWriteConfig"

\* After the write loop: rollback when a file failed, else the config write.
AfterWriteLoop(failedFiles) == IF failedFiles # <<>> THEN "fsRollback" ELSE "fsWriteConfig"

\* Lines 216-260, one iteration: download the file and write it; a failure is
\* recorded in failedFiles by the catch inside the loop.
FsWriteStep ==
  /\ pc = "fsWrite"
  /\ IF loc.i > Len(loc.files)
       THEN /\ pc' = AfterWriteLoop(loc.failedFiles)
            /\ loc' = [loc EXCEPT !.i = 1]
            /\ UNCHANGED <<disk, log>>
       ELSE LET file == loc.files[loc.i]
                normalized == normalizePath(file)
                fail(error) == [loc EXCEPT !.i = @ + 1,
                                           !.failedFiles = Append(@, Failed(file, error))]
            IN  /\ pc' = pc
                /\ IF normalized = Null
                     THEN /\ loc' = fail("invalidPath")
                          /\ UNCHANGED <<disk, log>>
                     ELSE IF isProtectedFile(normalized, loc.cfg.protectedFiles)
                       THEN /\ loc' = fail("protected")
                            /\ UNCHANGED <<disk, log>>
                       ELSE \E downloadOk \in BOOLEAN, writeOk \in WriteOutcomes :
                              IF ~downloadOk
                                THEN /\ loc' = fail("download")
                                     /\ log' = Append(log, Ev("downloadFailed", normalized))
                                     /\ disk' = disk
                                ELSE IF ~writeOk
                                  THEN /\ loc' = fail("write")
                                       /\ log' = log \o <<Ev("download", normalized),
                                                          Ev("writeFailed", normalized)>>
                                       /\ disk' = disk
                                  ELSE /\ loc' = [loc EXCEPT !.i = @ + 1,
                                                   !.updatedFiles = Append(@, normalized)]
                                       /\ log' = log \o <<Ev("download", normalized),
                                                          Ev("write", normalized)>>
                                       /\ disk' = [disk EXCEPT ![normalized] = NewContent]
  /\ UNCHANGED <<config, backupDir, serverless, manifest, repo, result, pre, checks, calls, parked>>

\* RollbackOf without the branch that deletes a file that had no backup.
RollbackOfRestoreOnly(tree, backups, normalized) ==
  IF backups[normalized] # Absent
    THEN [tree EXCEPT ![normalized] = backups[normalized]]
    ELSE tree

\* Lines 267-293, one iteration over updatedFiles: restore the backup, or
\* delete the file that had none.  A step that throws is logged and skipped.
RollbackOf(tree, backups, normalized) ==
  IF backups[normalized] # Absent
    THEN [tree EXCEPT ![normalized] = backups[normalized]]
    ELSE [tree EXCEPT ![normalized] = Absent]

\* FsRollbackStep that gives up the rollback at the first step that throws.
FsRollbackStepStopOnFailure ==
  /\ pc = "fsRollback"
  /\ IF loc.i > Len(loc.updatedFiles)
       THEN /\ Respond([ApplyFailure("applyFs", 500, "rolledBack")
                          EXCEPT !.failed = loc.failedFiles])
            /\ UNCHANGED <<disk, log, loc>>
       ELSE LET normalized == loc.updatedFiles[loc.i]
            IN  \E stepOk \in BOOLEAN :
                  IF stepOk
                    THEN /\ disk' = RollbackOf(disk, backupDir, normalized)
                         /\ log' = Append(log, Ev("rollback", normalized))
                         /\ loc' = [loc EXCEPT !.i = @ + 1]
                         /\ UNCHANGED <<pc, result>>
                    ELSE /\ disk' = disk
                         /\ log' = Append(log, Ev("rollbackFailed", normalized))
                         /\ loc' = loc
                         /\ Respond(ApplyFailure("applyFs", 500, "error"))
  /\ UNCHANGED <<config, backupDir, serverless, manifest, repo, pre, checks, calls, parked>>

FsRollbackStep ==
  /\ pc = "fsRollback"
  /\ IF loc.i > Len(loc.updatedFiles)
       THEN /\ Respond([ApplyFailure("applyFs", 500, "rolledBack")
                          EXCEPT !.failed = loc.failedFiles])
            /\ UNCHANGED <<disk, log, loc>>
       ELSE LET normalized == loc.updatedFiles[loc.i]
            IN  /\ \E stepOk \in BOOLEAN :
                     IF stepOk
                       THEN /\ disk' = RollbackOf(disk, backupDir, normalized)
                            /\ log' = Append(log, Ev("rollback", normalized))
                       ELSE /\ disk' = disk
                            /\ log' = Append(log, Ev("rollbackFailed", normalized))
                /\ loc' = [loc EXCEPT !.i = @ + 1]
                /\ UNCHANGED <<pc, result>>
  /\ UNCHANGED <<config, backupDir, serverless, manifest, repo, pre, checks, calls, parked>>

\* UpdatedConfig that writes a record holding the two updated fields and
\* defaults for the others.
UpdatedConfigFresh(cfg, latestVersion, now) ==
  [cfg EXCEPT !.coreVersion = latestVersion, !.lastUpdate = now,
              !.templateBranch = "main", !.protectedFiles = <<>>]

\* Lines 305-318: rewrite the config with the new version and answer.
UpdatedConfig(cfg, latestVersion, now) ==
  [cfg EXCEPT !.coreVersion = latestVersion, !.lastUpdate = now]

\* FsWriteConfig that swallows a failed config write and answers success.
FsWriteConfigSwallowed ==
  /\ pc = "fsWriteConfig"
  /\ \E writeOk \in WriteOutcomes :
       /\ config' = IF writeOk THEN UpdatedConfig(loc.cfg, loc.latestVersion, calls) ELSE config
       /\ log' = Append(log, Ev(IF writeOk THEN "writeConfig" ELSE "writeConfigFailed",
                                ConfigFileName))
       /\ Respond([NoResult EXCEPT !.op = "applyFs", !.status = 200, !.kind = "applied",
                                   !.success = TRUE, !.version = loc.latestVersion,
                                   !.filesUpdated = Len(loc.updatedFiles)])
  /\ UNCHANGED <<disk, backupDir, serverless, manifest, repo, loc, pre, checks, calls, parked>>

FsWriteConfig ==
  /\ pc = "fsWriteConfig"
  /\ \E writeOk \in WriteOutcomes :
       IF writeOk
         THEN /\ config' = UpdatedConfig(loc.cfg, loc.latestVersion, calls)
              /\ log' = Append(log, Ev("writeConfig", ConfigFileName))
              /\ Respond([NoResult EXCEPT !.op = "applyFs", !.status = 200, !.kind = "applied",
                                          !.success = TRUE, !.version = loc.latestVersion,
                                          !.filesUpdated = Len(loc.updatedFiles)])
         ELSE /\ config' = config
              /\ log' = Append(log, Ev("writeConfigFailed", ConfigFileName))
              /\ Respond(ApplyFailure("applyFs", 500, "error"))
  /\ UNCHANGED <<disk, backupDir, serverless, manifest, repo, loc, pre, checks, calls, parked>>

(***************************************************************************)
(* POST apply, GitHub mode.                                                *)
(***************************************************************************)
\* Lines 361-448: authentication, config, manifest, version test, validation,
\* repository connection (getGitHubRepoFromVercel) and token (getGitHubToken).
ApplyGhBegin ==
  /\ Begin("applyGh")
  /\ \E env \in RequestEnvs :
       LET early == ApplyPrecheck("applyGh", env.authOk, config, env.fetch, manifest)
       IN  IF FetchUnanswered(env) THEN Hangs("applyGh", env)
           ELSE IF early # NoResult
             THEN /\ Respond(early)
                  /\ loc' = StartLoc("applyGh", env)
                  /\ log' = PrecheckLog(env.authOk, config)
             ELSE \E github \in {"notConnected", "noToken", "ready"} :
               IF github = "notConnected"
               THEN /\ Respond(ApplyFailure("applyGh", 400, "notConnected"))
                    /\ loc' = StartLoc("applyGh", env)
                    /\ log' = PrecheckLog(env.authOk, config)
               ELSE IF github = "noToken"
               THEN /\ Respond(ApplyFailure("applyGh", 401, "needsAuth"))
                    /\ loc' = StartLoc("applyGh", env)
                    /\ log' = PrecheckLog(env.authOk, config)
               ELSE /\ pc' = "ghDownload"
                    /\ result' = NoResult
                    /\ loc' = [StartLoc("applyGh", env) EXCEPT
                                 !.cfg = config, !.latestVersion = manifest.version,
                                 !.files = manifest.filesToUpdate, !.i = 1]
                    /\ log' = PrecheckLog(env.authOk, config)
  /\ UNCHANGED <<config, disk, backupDir, serverless, manifest, repo, parked>>

\* The route's catch block: any throw ends the request with status 500.
GhThrow(event) ==
  /\ Respond(ApplyFailure("applyGh", 500, "error"))
  /\ log' = Append(log, event)
  /\ UNCHANGED <<loc, repo, parked>>

\* GhDownloadStep that leaves out a file whose download failed and goes on.
GhDownloadStepSkipFailed ==
  /\ pc = "ghDownload"
  /\ IF loc.i > Len(loc.files)
       THEN /\ pc' = "ghGetRef"
            /\ loc' = [loc EXCEPT !.i = 1]
            /\ UNCHANGED <<log, result, repo>>
       ELSE LET normalized == normalizePath(loc.files[loc.i])
            IN  IF normalized = Null
                  THEN /\ loc' = [loc EXCEPT !.i = @ + 1]
                       /\ UNCHANGED <<log, result, repo, pc>>
                  ELSE \E downloadOk \in BOOLEAN :
                         IF downloadOk
                           THEN /\ loc' = [loc EXCEPT !.i = @ + 1,
                                             !.filesToCommit =
                                                Append(@, [path |-> normalized, content |-> NewContent])]
                                /\ log' = Append(log, Ev("download", normalized))
                                /\ UNCHANGED <<result, repo, pc>>
                           ELSE /\ loc' = [loc EXCEPT !.i = @ + 1]
                                /\ log' = Append(log, Ev("downloadFailed", normalized))
                                /\ UNCHANGED <<result, repo, pc>>
  /\ UNCHANGED <<config, disk, backupDir, serverless, manifest, pre, checks, calls, parked>>

\* Lines 453-477, one iteration: download the file from the template.
GhDownloadStep ==
  /\ pc = "ghDownload"
  /\ IF loc.i > Len(loc.files)
       THEN /\ pc' = "ghGetRef"
            /\ loc' = [loc EXCEPT !.i = 1]
            /\ UNCHANGED <<log, result, repo>>
       ELSE LET normalized == normalizePath(loc.files[loc.i])
            IN  IF normalized = Null
                  THEN /\ loc' = [loc EXCEPT !.i = @ + 1]
                       /\ UNCHANGED <<log, result, repo, pc>>
                  ELSE \E downloadOk \in BOOLEAN :
                         IF downloadOk
                           THEN /\ loc' = [loc EXCEPT !.i = @ + 1,
                                             !.filesToCommit =
                                                Append(@, [path |-> normalized, content |-> NewContent])]
                                /\ log' = Append(log, Ev("download", normalized))
                                /\ UNCHANGED <<result, repo, pc>>
                           ELSE GhThrow(Ev("downloadFailed", normalized))
  /\ UNCHANGED <<config, disk, backupDir, serverless, manifest, pre, checks, calls, parked>>

(***************************************************************************)
(* createSingleCommitWithMultipleFiles, one action per call of the Git     *)
(* Database API.                                                           *)
(***************************************************************************)
\* 1. GET git/ref/heads/<branch>
GhGetRef ==
  /\ pc = "ghGetRef"
  /\ \E ok \in BOOLEAN :
       IF ok
         THEN /\ pc' = "ghGetTree"
              /\ loc' = [loc EXCEPT !.parentSha = Len(repo.commits)]
              /\ log' = Append(log, Ev("getRef", <<>>))
              /\ UNCHANGED <<result, repo>>
         ELSE GhThrow(Ev("getRefFailed", <<>>))
  /\ UNCHANGED <<config, disk, backupDir, serverless, manifest, pre, checks, calls, parked>>

\* 2. GET git/trees/<parentSha>
GhGetTree ==
  /\ pc = "ghGetTree"
  /\ \E ok \in BOOLEAN :
       IF ok
         THEN /\ pc' = "ghCreateBlob"
              /\ loc' = [loc EXCEPT !.i = 1]
              /\ log' = Append(log, Ev("getTree", <<>>))
              /\ UNCHANGED <<result, repo>>
         ELSE GhThrow(Ev("getTreeFailed", <<>>))
  /\ UNCHANGED <<config, disk, backupDir, serverless, manifest, pre, checks, calls, parked>>

\* 3. POST git/blobs, one iteration of the loop over files.
GhCreateBlob ==
  /\ pc = "ghCreateBlob"
  /\ IF loc.i > Len(loc.filesToCommit)
       THEN /\ pc' = "ghCreateTree"
            /\ UNCHANGED <<loc, log, result, repo>>
       ELSE LET file == loc.filesToCommit[loc.i]
            IN  \E ok \in BOOLEAN :
                  IF ok
                    THEN /\ loc' = [loc EXCEPT !.i = @ + 1, !.blobShas = Append(@, file)]
                         /\ log' = Append(log, Ev("createBlob", file.path))
                         /\ UNCHANGED <<result, repo, pc>>
                    ELSE GhThrow(Ev("createBlobFailed", file.path))
  /\ UNCHANGED <<config, disk, backupDir, serverless, manifest, pre, checks, calls, parked>>

\* 4. POST git/trees with base_tree and one entry per blob.
GhCreateTree ==
  /\ pc = "ghCreateTree"
  /\ \E ok \in BOOLEAN :
       IF ok
         THEN /\ pc' = "ghCreateCommit"
              /\ loc' = [loc EXCEPT !.treeBuilt = TRUE]
              /\ log' = Append(log, Ev("createTree", <<>>))
              /\ UNCHANGED <<result, repo>>
         ELSE GhThrow(Ev("createTreeFailed", <<>>))
  /\ UNCHANGED <<config, disk, backupDir, serverless, manifest, pre, checks, calls, parked>>

\* TreeEntryPaths of a tree that holds the first blob only.
TreeEntryPathsFirstOnly(blobShas) == {blobShas[k].path : k \in 1..Len(blobShas) \cap {1}}

\* The paths a commit built from these tree entries touches.
TreeEntryPaths(blobShas) == {blobShas[k].path : k \in 1..Len(blobShas)}

\* GhCreateCommit without the test of response.ok: a refused commit creation
\* is logged and the function goes on to the reference update.
GhCreateCommitUnchecked ==
  /\ pc = "ghCreateCommit"
  /\ \E ok \in BOOLEAN :
       /\ pc' = "ghUpdateRef"
       /\ loc' = [loc EXCEPT !.commitData = [paths |-> TreeEntryPaths(loc.blobShas)]]
       /\ log' = Append(log, Ev(IF ok THEN "createCommit" ELSE "createCommitFailed", <<>>))
       /\ UNCHANGED <<result, repo>>
  /\ UNCHANGED <<config, disk, backupDir, serverless, manifest, pre, checks, calls, parked>>

\* 5. POST git/commits with the new tree and the branch head as parent.
GhCreateCommit ==
  /\ pc = "ghCreateCommit"
  /\ \E ok \in BOOLEAN :
       IF ok
         THEN /\ pc' = "ghUpdateRef"
              /\ loc' = [loc EXCEPT !.commitData = [paths |-> TreeEntryPaths(loc.blobShas)]]
              /\ log' = Append(log, Ev("createCommit", <<>>))
              /\ UNCHANGED <<result, repo>>
         ELSE GhThrow(Ev("createCommitFailed", <<>>))
  /\ UNCHANGED <<config, disk, backupDir, serverless, manifest, pre, checks, calls, parked>>

\* The branch after its reference moves to a commit with these blobs.
LayerBlobs(files, blobShas) ==
  [p \in DOMAIN files |->
     IF \E k \in 1..Len(blobShas) : blobShas[k].path = p
       THEN blobShas[CHOOSE k \in 1..Len(blobShas) :
                       /\ blobShas[k].path = p
                       /\ \A m \in (k + 1)..Len(blobShas) : blobShas[m].path # p].content
       ELSE files[p]]

\* updateFilesViaGitHub's return value: one object, not a list of commits.
UpdateFilesResult(commitSha, filesUpdated) ==
  [kind |-> "object", commit |-> commitSha, filesUpdated |-> filesUpdated]

\* 6. PATCH git/refs/heads/<branch>
GhUpdateRef ==
  /\ pc = "ghUpdateRef"
  /\ \E ok \in BOOLEAN :
       IF ok
         THEN /\ pc' = "ghGetConfig"
              /\ repo' = [repo EXCEPT !.commits = Append(@, loc.commitData),
                                      !.files = LayerBlobs(@, loc.blobShas)]
              /\ loc' = [loc EXCEPT !.commitResults =
                           UpdateFilesResult(Len(repo.commits) + 1, Len(loc.filesToCommit))]
              /\ log' = Append(log, Ev("updateRef", <<>>))
              /\ UNCHANGED result
         ELSE GhThrow(Ev("updateRefFailed", <<>>))
  /\ UNCHANGED <<config, disk, backupDir, serverless, manifest, pre, checks, calls, parked>>

(***************************************************************************)
(* updateConfigFile: read vozsmart.config.json of the branch, then commit  *)
(* it with the new version through the contents API.                       *)
(***************************************************************************)
GhGetConfig ==
  /\ pc = "ghGetConfig"
  /\ \E outcome \in FetchOutcomes :
       IF outcome = "ok"
         THEN /\ pc' = "ghPutConfig"
              /\ loc' = [loc EXCEPT !.configSha = Len(repo.commits)]
              /\ log' = Append(log, Ev("getConfig", ConfigFileName))
              /\ UNCHANGED <<result, repo>>
         ELSE GhThrow(Ev("getConfigFailed", ConfigFileName))
  /\ UNCHANGED <<config, disk, backupDir, serverless, manifest, pre, checks, calls, parked>>

GhPutConfig ==
  /\ pc = "ghPutConfig"
  /\ \E ok \in BOOLEAN :
       IF ok
         THEN /\ pc' = "ghRedeploy"
              /\ repo' = [repo EXCEPT
                            !.commits = Append(@, [paths |-> {ConfigFileName}]),
                            !.config = UpdatedConfig(@, loc.latestVersion, calls)]
              /\ loc' = [loc EXCEPT !.configCommit = Len(repo.commits) + 1]
              /\ log' = Append(log, Ev("putConfig", ConfigFileName))
              /\ UNCHANGED result
         ELSE GhThrow(Ev("putConfigFailed", ConfigFileName))
  /\ UNCHANGED <<config, disk, backupDir, serverless, manifest, pre, checks, calls, parked>>

\* Lines 497-533: the Vercel API when its token and project are configured,
\* else the deploy hook when its URL is configured.
RedeployOutcomes ==
  {"notConfigured", "apiOk", "apiFailed", "apiThrew", "hookOk", "hookFailed", "hookThrew"}

\* GhRedeploy that raises the flag whenever a trigger is configured.
GhRedeployFlagWhenConfigured ==
  /\ pc = "ghRedeploy"
  /\ \E outcome \in RedeployOutcomes :
       /\ loc' = [loc EXCEPT !.redeploy = outcome,
                             !.redeployTriggered = (outcome # "notConfigured")]
       /\ log' = IF outcome = "notConfigured" THEN log
                 ELSE Append(log, Ev("redeploy", <<>>))
  /\ pc' = "ghRespond"
  /\ UNCHANGED <<config, disk, backupDir, serverless, manifest, repo, result, pre, checks, calls, parked>>

GhRedeploy ==
  /\ pc = "ghRedeploy"
  /\ \E outcome \in RedeployOutcomes :
       /\ loc' = [loc EXCEPT !.redeploy = outcome,
                             !.redeployTriggered = (outcome \in {"apiOk", "hookOk"})]
       /\ log' = IF outcome = "notConfigured" THEN log
                 ELSE Append(log, Ev("redeploy", <<>>))
  /\ pc' = "ghRespond"
  /\ UNCHANGED <<config, disk, backupDir, serverless, manifest, repo, result, pre, checks, calls, parked>>

\* Lines 535-547: the response reads commitResults.length and spreads
\* commitResults into the commits array; spreading a value that is not
\* iterable throws, and the throw is answered by the catch block.
IsIterable(v) == v.kind = "array"

ApplyGhResponse(l) ==
  IF IsIterable(l.commitResults)
    THEN [NoResult EXCEPT !.op = "applyGh", !.status = 200, !.kind = "applied",
                          !.success = TRUE, !.version = l.latestVersion,
                          !.filesUpdated = Len(l.commitResults.items),
                          !.redeployTriggered = l.redeployTriggered]
    ELSE ApplyFailure("applyGh", 500, "error")

GhRespond ==
  /\ pc = "ghRespond"
  /\ Respond(ApplyGhResponse(loc))
  /\ UNCHANGED <<config, disk, backupDir, serverless, manifest, repo, loc, log, pre, checks, calls, parked>>

\* The running request is about to await a network call: the download of a
\* file, a call of the GitHub API, or the redeploy trigger.
AtAwait ==
  \/ pc \in {"fsWrite", "ghDownload"} /\ loc.i <= Len(loc.files)
  \/ pc = "ghCreateBlob" /\ loc.i <= Len(loc.filesToCommit)
  \/ pc \in {"ghGetRef", "ghGetTree", "ghCreateTree", "ghCreateCommit", "ghUpdateRef",
             "ghGetConfig", "ghPutConfig", "ghRedeploy"}

\* The endpoint of the awaited call never answers.
NeverResponds ==
  /\ AtAwait
  /\ pc' = "hung"
  /\ log' = Append(log, Ev("noResponse", <<>>))
  /\ UNCHANGED <<config, disk, backupDir, serverless, manifest, repo, loc, result, pre, checks,
                  calls, parked>>

Next ==
  \/ Check
  \/ ApplyFsBegin
  \/ FsBackupStep
  \/ FsWriteStep
  \/ FsRollbackStep
  \/ FsWriteConfig
  \/ ApplyGhBegin
  \/ GhDownloadStep
  \/ GhGetRef
  \/ GhGetTree
  \/ GhCreateBlob
  \/ GhCreateTree
  \/ GhCreateCommit
  \/ GhUpdateRef
  \/ GhGetConfig
  \/ GhPutConfig
  \/ GhRedeploy
  \/ GhRespond
  \/ NeverResponds

Spec == Init /\ [][Next]_vars

(***************************************************************************)
(* Concurrent requests.  A handler is an async function: at an await the   *)
(* event loop may run another request.  The filesystem apply awaits the    *)
(* download of each file inside its write loop (route.ts:235, 244); the    *)
(* backup loop, the write itself and the rollback are synchronous.  The    *)
(* suspended request keeps its locals and its own backup directory; the    *)
(* working tree and vozsmart.config.json are shared.                       *)
(***************************************************************************)
Context ==
  [pc |-> pc, loc |-> loc, result |-> result, log |-> log, pre |-> pre, backupDir |-> backupDir]

SwitchRequest ==
  /\ \/ AtAwait
     \/ pc \in {"idle", "done"} /\ parked # NoParked
  /\ parked' = IF pc = "idle" THEN NoParked ELSE <<Context>>
  /\ IF parked = NoParked
       THEN /\ pc' = "idle"
            /\ loc' = NoLoc
            /\ result' = NoResult
            /\ log' = <<>>
            /\ backupDir' = NoBackup
            /\ pre' = pre
       ELSE /\ pc' = parked[1].pc
            /\ loc' = parked[1].loc
            /\ result' = parked[1].result
            /\ log' = parked[1].log
            /\ backupDir' = parked[1].backupDir
            /\ pre' = parked[1].pre
  /\ UNCHANGED <<config, disk, serverless, manifest, repo, checks, calls>>

InitConcurrent == Init /\ config.present /\ ~serverless

NextConcurrent ==
  \/ ApplyFsBegin
  \/ FsBackupStep
  \/ FsWriteStep
  \/ FsRollbackStep
  \/ FsWriteConfig
  \/ SwitchRequest

SpecConcurrent == InitConcurrent /\ [][NextConcurrent]_vars

(***************************************************************************)
(* The filesystem apply on manifests one entry longer than those of Spec:  *)
(* long enough for two files to be written before a third one fails, so    *)
(* that the rollback has more than one step.  The entries are the two      *)
(* paths that no built-in pattern protects.                                *)
(***************************************************************************)
LongLists == [1..(MaxFiles + 1) -> {PLibFoo, PAsset}]

InitFilesystem ==
  /\ config = InitialConfig(TRUE, <<>>)
  /\ disk \in {DiskAll, DiskSome}
  /\ serverless = FALSE
  /\ manifest \in {[version |-> "1.1.0", filesToUpdate |-> fl] : fl \in LongLists}
  /\ backupDir = NoBackup
  /\ repo = [ commits |-> <<>>,
              files |-> [p \in TreePaths |-> OldContent],
              config |-> [ coreVersion |-> "1.0.0", lastUpdate |-> 0,
                           templateRepo |-> "owner/template", templateBranch |-> "main",
                           protectedFiles |-> config.protectedFiles ] ]
  /\ pc = "idle"
  /\ loc = NoLoc
  /\ result = NoResult
  /\ log = <<>>
  /\ pre = [disk |-> disk, config |-> config, repo |-> repo, applied |-> "none"]
  /\ checks = <<>>
  /\ calls = 0
  /\ parked = NoParked

NextFilesystem ==
  \/ ApplyFsBegin
  \/ FsBackupStep
  \/ FsWriteStep
  \/ FsRollbackStep
  \/ FsWriteConfig

SpecFilesystem == InitFilesystem /\ [][NextFilesystem]_vars

(***************************************************************************)
(* update-protection on its own: one call of normalizePath, of             *)
(* isProtectedFile or of validateFilesToUpdate on the entries of a         *)
(* manifest under the patterns of a config.  loc holds the call and its    *)
(* argument, result the value returned.                                    *)
(***************************************************************************)
InitProtection ==
  /\ \E files \in ProbeLists : manifest = [version |-> "1.1.0", filesToUpdate |-> files]
  /\ \E pats \in ProbePatternLists : config = InitialConfig(TRUE, pats)
  /\ disk = DiskAll
  /\ serverless = FALSE
  /\ backupDir = NoBackup
  /\ repo = [commits |-> <<>>, files |-> DiskAll, config |-> config]
  /\ pc = "idle"
  /\ loc = [op |-> "none", filePath |-> <<>>]
  /\ result = Null
  /\ log = <<>>
  /\ pre = [disk |-> disk, config |-> config, repo |-> repo, applied |-> "none"]
  /\ checks = <<>>
  /\ calls = 0
  /\ parked = NoParked

Returns(op, filePath, value) ==
  /\ pc = "idle"
  /\ pc' = "done"
  /\ loc' = [op |-> op, filePath |-> filePath]
  /\ result' = value
  /\ UNCHANGED <<config, disk, backupDir, serverless, manifest, repo, log, pre, checks, calls, parked>>

CallNormalizePath ==
  \E k \in 1..Len(manifest.filesToUpdate) :
     LET filePath == manifest.filesToUpdate[k]
     IN  Returns("normalizePath", filePath, normalizePath(filePath))

CallIsProtectedFile ==
  \E k \in 1..Len(manifest.filesToUpdate) :
     LET filePath == manifest.filesToUpdate[k]
     IN  Returns("isProtectedFile", filePath, isProtectedFile(filePath, config.protectedFiles))

CallValidateFilesToUpdate ==
  \E files \in {manifest.filesToUpdate} :
     Returns("validateFilesToUpdate", <<>>,
             validateFilesToUpdate(files, config.protectedFiles))

NextProtection ==
  \/ CallNormalizePath
  \/ CallIsProtectedFile
  \/ CallValidateFilesToUpdate

SpecProtection == InitProtection /\ [][NextProtection]_vars

(***************************************************************************)
(* Properties.                                                             *)
(***************************************************************************)
ApplyOps == {"applyFs", "applyGh"}

InApply == loc.op \in ApplyOps

ApplyDone == pc = "done" /\ InApply

\* The request got as far as the manifest: authenticated, configured, fetched.
ReachedManifest == loc.authOk /\ pre.config.present /\ loc.fetch = "ok"

ManifestBlocked ==
  ~validateFilesToUpdate(manifest.filesToUpdate, pre.config.protectedFiles).valid

\* Operations on a target file (not on vozsmart.config.json itself).
TargetEvents ==
  { "backup", "download", "downloadFailed", "write", "writeFailed",
    "rollback", "rollbackFailed", "createBlob", "createBlobFailed" }

LogHas(e) == \E i \in 1..Len(log) : log[i].e = e

LogCount(e) == Cardinality({i \in 1..Len(log) : log[i].e = e})

NothingTouched ==
  /\ \A i \in 1..Len(log) : log[i].e \in {"fetchManifest", "noResponse"}
  /\ disk = pre.disk
  /\ config = pre.config
  /\ repo = pre.repo
  /\ backupDir = NoBackup

\* For each configured pattern list of a deployment, the manifest entries
\* that isProtectedFile reports protected.
ProtectedEntries ==
  [pats \in {d.config.protectedFiles : d \in Deployments} |->
     {r \in RawPaths \cup TreePaths : isProtectedFile(r, pats)}]

\* The manifest lists an entry that is protected under the installed config.
ListsProtected ==
  \E k \in 1..Len(manifest.filesToUpdate) :
     manifest.filesToUpdate[k] \in ProtectedEntries[pre.config.protectedFiles]

\* C1 as stated: whenever the manifest lists a protected path, Apply (either
\* mode) answers with the security error naming the blocked paths and has
\* touched nothing.
C1_BlockedAlwaysSecurityError ==
  (ApplyDone /\ ReachedManifest /\ ManifestBlocked) =>
     /\ result.kind = "security"
     /\ result.blocked = BlockedOf(manifest.filesToUpdate, pre.config.protectedFiles)
     /\ NothingTouched

\* C1 amended: when the manifest lists a protected path, Apply (either mode)
\* backs up, downloads, writes and commits nothing, and answers with the
\* security error (403) naming the blocked paths provided the manifest version
\* differs from the installed one (equal versions are refused first, as up to
\* date); no state of an Apply has backed up, downloaded, written or committed
\* a target file that is protected.
C1_ProtectedNeverApplied ==
  /\ (ApplyDone /\ ReachedManifest /\ pre.config.coreVersion # manifest.version
        /\ ListsProtected) =>
       /\ result.status = 403
       /\ result.kind = "security"
       /\ ~result.success
       /\ result.blocked = BlockedOf(manifest.filesToUpdate, pre.config.protectedFiles)
       /\ result.blocked # <<>>
  /\ (InApply /\ ~NothingTouched) => ~ListsProtected
  /\ InApply =>
       /\ \A i \in 1..Len(log) :
            log[i].e \in TargetEvents =>
              /\ log[i].p \in TreePaths
              /\ log[i].p \notin ProtectedEntries[pre.config.protectedFiles]
       /\ \A p \in ProtectedEntries[pre.config.protectedFiles] \cap TreePaths :
            /\ disk[p] = pre.disk[p]
            /\ repo.files[p] = pre.repo.files[p]
            /\ backupDir[p] = Absent

\* An Apply refused for a path that only a configured pattern protects.
C1_Witness ==
  /\ ApplyDone
  /\ result.kind = "security"
  /\ \E i \in 1..Len(result.blocked) : result.blocked[i] = PAsset

\* The files of failedFiles that a download or a write failed for.
FailureEvents == {"downloadFailed", "writeFailed"}

FailureErrors == [downloadFailed |-> "download", writeFailed |-> "write"]

FsRolledBack ==
  /\ pc = "done"
  /\ loc.op = "applyFs"
  /\ \E i \in 1..Len(log) : log[i].e \in FailureEvents

C3_NonSuccessNothingChanged ==
  (ApplyDone /\ ~result.success) =>
     /\ disk = pre.disk
     /\ config = pre.config
     /\ repo = pre.repo

GitDataSteps == {"getRef", "getTree", "createBlob", "createTree", "createCommit"}

GitDataFailures ==
  {"getRefFailed", "getTreeFailed", "createBlobFailed", "createTreeFailed", "createCommitFailed"}

RefUpdates == {"updateRef", "updateRefFailed"}

CountBefore(e, i) == Cardinality({j \in 1..(i - 1) : log[j].e = e})

\* C4: in the batched commit the branch-reference update is issued only after
\* the ref lookup, the tree lookup, every blob creation, the tree creation and
\* the commit creation have succeeded, and no call of the batched commit
\* follows it; when one of those steps fails the operation throws, no
\* reference update is issued and the branch is unchanged.
C4_RefUpdateOnlyAfterAllSteps ==
  loc.op = "applyGh" =>
    /\ \A i \in 1..Len(log) :
         log[i].e \in RefUpdates =>
           /\ CountBefore("getRef", i) = 1
           /\ CountBefore("getTree", i) = 1
           /\ CountBefore("createBlob", i) = Len(loc.filesToCommit)
           /\ CountBefore("createTree", i) = 1
           /\ CountBefore("createCommit", i) = 1
           /\ \A j \in 1..(i - 1) : log[j].e \notin GitDataFailures \cup RefUpdates
           /\ \A j \in (i + 1)..Len(log) :
                log[j].e \notin GitDataSteps \cup GitDataFailures \cup RefUpdates
    /\ (\E i \in 1..Len(log) : log[i].e \in GitDataFailures) =>
         /\ \A i \in 1..Len(log) : log[i].e \notin RefUpdates
         /\ log[Len(log)].e \in GitDataFailures
         /\ pc = "done"
         /\ result.kind = "error"
         /\ repo = pre.repo
    /\ ~LogHas("updateRef") => repo = pre.repo

\* A reference update issued after two blobs, and answered with success.
C4_Witness ==
  /\ loc.op = "applyGh"
  /\ LogHas("updateRef")
  /\ LogCount("createBlob") = 2

\* The target files of the manifest on the branch, all with their new content.
BatchLanded ==
  \A k \in 1..Len(manifest.filesToUpdate) :
     repo.files[normalizePath(manifest.filesToUpdate[k])] = NewContent

\* C5 as stated: when a remote Apply (of at least one target file) returns, the
\* branch either holds the new content of every target file together with the
\* state record at the new version, or is unchanged.
C5_RemoteAllOrNothing ==
  (pc = "done" /\ loc.op = "applyGh" /\ manifest.filesToUpdate # <<>>) =>
     \/ repo = pre.repo
     \/ /\ BatchLanded
        /\ repo.config.coreVersion = manifest.version

\* C6 as stated: a remote Apply (of at least one target file) whose fetch,
\* validation, downloads, batched commit and state-record commit all succeeded
\* returns the Applied outcome with the new version and the number of files
\* updated.
C6_BothCommitsLandedReturnsApplied ==
  (pc = "done" /\ loc.op = "applyGh" /\ manifest.filesToUpdate # <<>>
     /\ LogHas("updateRef") /\ LogHas("putConfig")) =>
     /\ result.success
     /\ result.kind = "applied"
     /\ result.version = manifest.version
     /\ result.filesUpdated = Len(loc.filesToCommit)

BothCommitsLanded == loc.op = "applyGh" /\ LogHas("updateRef") /\ LogHas("putConfig")

TargetPaths == {normalizePath(manifest.filesToUpdate[k]) : k \in 1..Len(manifest.filesToUpdate)}

\* The commit the batched commit added to the branch.
BatchCommit == repo.commits[Len(pre.repo.commits) + 1]

\* C7 as stated: a remote Apply that went through composes one tree and one
\* commit touching the N target paths plus the state-record path, and the
\* branch reference moves exactly once.
C7_OneCommitWithStateRecord ==
  BothCommitsLanded =>
    /\ LogCount("createTree") = 1
    /\ LogCount("createCommit") = 1
    /\ LogCount("updateRef") = 1
    /\ BatchCommit.paths = TargetPaths \cup {ConfigFileName}
    /\ Len(repo.commits) = Len(pre.repo.commits) + 1

\* C7 amended: a remote Apply whose commits both landed composed one tree and
\* one commit touching exactly the N target paths, not the state-record path,
\* with exactly one branch-reference update call whatever N is; the state
\* record is a second commit of its own, after the batch, touching only
\* vozsmart.config.json, so the branch head advances by two commits.
C7_OneBatchCommitThenStateCommit ==
  BothCommitsLanded =>
    /\ LogCount("createTree") = 1
    /\ LogCount("createCommit") = 1
    /\ LogCount("updateRef") = 1
    /\ LogCount("updateRefFailed") = 0
    /\ LogCount("createBlob") = Len(manifest.filesToUpdate)
    /\ BatchCommit.paths = TargetPaths
    /\ ConfigFileName \notin BatchCommit.paths
    /\ Len(repo.commits) = Len(pre.repo.commits) + 2
    /\ repo.commits[Len(repo.commits)].paths = {ConfigFileName}
    /\ LogCount("putConfig") = 1

\* Both commits landed for a manifest of two different files.
C7_Witness ==
  /\ BothCommitsLanded
  /\ pc = "done"
  /\ Cardinality(BatchCommit.paths) = 2

CheckDone == pc = "done" /\ loc.op = "check"

\* C8: a Check that reached a manifest listing a blocked path answers 403
\* with the security error naming the blocked paths, hasUpdate false and an
\* empty file list, whether or not the versions differ; no Check reports
\* hasUpdate true for such a manifest.
C8_CheckBlockedTakesPrecedence ==
  /\ (CheckDone /\ ReachedManifest /\ ManifestBlocked) =>
       /\ result.status = 403
       /\ result.kind = "security"
       /\ result.blocked = BlockedOf(manifest.filesToUpdate, config.protectedFiles)
       /\ result.blocked # <<>>
       /\ ~result.hasUpdate
       /\ result.filesToUpdate = <<>>
  /\ (CheckDone /\ ManifestBlocked) => ~result.hasUpdate

\* A Check refused for a blocked path although the versions differ.
C8_Witness ==
  /\ CheckDone
  /\ result.status = 403
  /\ config.coreVersion # manifest.version

\* C9: a Check that reached a manifest whose file list passes validation
\* reports hasUpdate exactly when the installed version and the manifest
\* version are different strings, an older manifest version included.
C9_HasUpdateIffVersionsDiffer ==
  (CheckDone /\ ReachedManifest /\ ~ManifestBlocked) =>
     /\ result.status = 200
     /\ result.current = config.coreVersion
     /\ result.latest = manifest.version
     /\ result.hasUpdate <=> (config.coreVersion # manifest.version)

\* An update reported for a manifest version older than the installed one.
C9_Witness ==
  /\ CheckDone
  /\ result.hasUpdate
  /\ config.coreVersion = "1.0.0"
  /\ manifest.version = "0.9.0"

\* C10: every Check leaves the state record, the files and the branch as
\* they were, whatever its outcome, and a Check that follows a Check under
\* the same authentication and fetch outcome returns the same result.
C10_CheckMutatesNothing ==
  CheckDone =>
    /\ config = pre.config
    /\ disk = pre.disk
    /\ repo = pre.repo
    /\ (checks # <<>> /\ checks[1].authOk = loc.authOk /\ checks[1].fetch = loc.fetch) =>
         result = checks[1].result

\* Two successive Checks that both reported an available update.
C10_Witness ==
  /\ CheckDone
  /\ checks # <<>>
  /\ result.status = 200
  /\ result.hasUpdate
  /\ checks[1].result = result

\* C11 as stated: a Check of a configured instance whose manifest fetch fails
\* in any way (not found, another status, a transport error) returns a
\* failure that still reports the installed version in 'current'.
C11_FetchFailureReportsCurrent ==
  (CheckDone /\ loc.authOk /\ config.present /\ loc.fetch # "ok") =>
     /\ ~result.success
     /\ result.current = config.coreVersion

\* The request did nothing but fetch the manifest.
OnlyFetched ==
  /\ \A i \in 1..Len(log) : log[i].e \in {"fetchManifest", "noResponse"}
  /\ disk = pre.disk
  /\ config = pre.config
  /\ repo = pre.repo
  /\ ~loc.redeployTriggered

\* C12: an Apply (either mode) that finds the installed version equal to the
\* manifest version answers 400 'already up to date' and has made no backup,
\* no download, no file write, no commit, no redeploy and no change to the
\* state record.
C12_EqualVersionRefused ==
  (InApply /\ ReachedManifest /\ pre.config.coreVersion = manifest.version) =>
     /\ pc = "done"
     /\ result.status = 400
     /\ result.kind = "upToDate"
     /\ ~result.success
     /\ OnlyFetched

\* An Apply refused as up to date right after the Apply that installed the
\* manifest's version.
C12_Witness ==
  /\ ApplyDone
  /\ result.kind = "upToDate"
  /\ pre.config.coreVersion = "1.1.0"

Returned(op) == pc = "done" /\ loc.op = op

\* C13: isProtectedFile returns true for every path of a built-in protected
\* category (.env, .env.production, vozsmart.config.json, package-lock.json,
\* supabase/migrations/x.sql, .git/config, and any path one of the built-in
\* patterns matches) under every configured pattern list, the empty one
\* included.
C13_BuiltInAlwaysProtected ==
  Returned("isProtectedFile") =>
    /\ loc.filePath \in BuiltInExamples => result = TRUE
    /\ (normalizePath(loc.filePath) # Null /\ MatchesHardcoded(normalizePath(loc.filePath)))
         => result = TRUE

\* .env.production found protected under an empty configured list.
C13_Witness ==
  /\ Returned("isProtectedFile")
  /\ loc.filePath = PEnvProduction
  /\ config.protectedFiles = <<>>
  /\ result = TRUE

\* C14: validateFilesToUpdate returns as blocked exactly the entries of the
\* input for which isProtectedFile is true, as the original strings, in input
\* order and with duplicates kept, and valid exactly when blocked is empty.
C14_BlockedIsProtectedSubsequence ==
  Returned("validateFilesToUpdate") =>
    /\ result.blocked =
         SelectSeq(manifest.filesToUpdate,
                   LAMBDA f : isProtectedFile(f, config.protectedFiles))
    /\ result.valid <=> (result.blocked = <<>>)

\* A list that names ./.env twice: both entries are reported, as written.
C14_Witness ==
  /\ Returned("validateFilesToUpdate")
  /\ manifest.filesToUpdate = <<PDotEnv, PDotEnv>>
  /\ result.blocked = <<PDotEnv, PDotEnv>>
  /\ ~result.valid

\* The input has a parent-directory segment.
HasParentSegment(filePath) ==
  LET segs == SplitSlash(ReplaceChar(filePath, "\\", "/"), <<>>)
  IN  \E k \in 1..Len(segs) : segs[k] = DotDot

\* C15 as stated: normalizePath returns null for every input with a
\* parent-directory segment anywhere (a/b/../c included) and for every
\* absolute path.
C15_ParentSegmentRejected ==
  (Returned("normalizePath") /\ loc.filePath # NonString
     /\ (HasParentSegment(loc.filePath) \/ PathIsAbsolute(Trim(loc.filePath)))) =>
     result = Null

\* Glob matching as the specification defines it: * is any run without a
\* separator, ** any run, ? one arbitrary character.
RECURSIVE GlobMatch(_, _)
GlobMatch(pattern, s) ==
  IF pattern = <<>> THEN s = <<>>
  ELSE IF Len(pattern) >= 2 /\ pattern[1] = "*" /\ pattern[2] = "*"
    THEN \/ GlobMatch(SubSeq(pattern, 3, Len(pattern)), s)
         \/ s # <<>> /\ GlobMatch(pattern, Tail(s))
  ELSE IF Head(pattern) = "*"
    THEN \/ GlobMatch(Tail(pattern), s)
         \/ s # <<>> /\ Head(s) # "/" /\ GlobMatch(pattern, Tail(s))
  ELSE IF Head(pattern) = "?"
    THEN s # <<>> /\ GlobMatch(Tail(pattern), Tail(s))
  ELSE s # <<>> /\ Head(s) = Head(pattern) /\ GlobMatch(Tail(pattern), Tail(s))

\* C16 as stated: a path outside the built-in list is protected exactly when
\* a configured pattern matches the whole normalized path as a glob
\* (* within a segment, ** across segments, ? one arbitrary character).
C16_ConfiguredPatternIsGlob ==
  (Returned("isProtectedFile") /\ normalizePath(loc.filePath) # Null
     /\ ~MatchesHardcoded(normalizePath(loc.filePath))) =>
     (result <=> \E i \in 1..Len(config.protectedFiles) :
                    GlobMatch(config.protectedFiles[i], normalizePath(loc.filePath)))

\* The fields of vozsmart.config.json an update may change.
UpdatedFields == {"coreVersion", "lastUpdate"}

SameOtherFields(written, read) ==
  /\ DOMAIN written = DOMAIN read
  /\ \A f \in DOMAIN read \ UpdatedFields : written[f] = read[f]

\* C17: the state record an Apply writes (the local file in filesystem mode,
\* the file of the branch in remote mode) differs from the record it read
\* only in coreVersion and lastUpdate: templateRepo, templateBranch,
\* protectedFiles and every other field keep their values.
C17_OnlyVersionFieldsRewritten ==
  InApply =>
    /\ SameOtherFields(config, pre.config)
    /\ SameOtherFields(repo.config, pre.repo.config)
    /\ LogHas("writeConfig") =>
         /\ config.coreVersion = manifest.version
         /\ config.protectedFiles = pre.config.protectedFiles
         /\ config.templateRepo = pre.config.templateRepo
         /\ config.templateBranch = pre.config.templateBranch
    /\ LogHas("putConfig") =>
         /\ repo.config.coreVersion = manifest.version
         /\ repo.config.protectedFiles = pre.repo.config.protectedFiles
         /\ repo.config.templateRepo = pre.repo.config.templateRepo
         /\ repo.config.templateBranch = pre.repo.config.templateBranch

\* A filesystem Apply that rewrote a record holding a configured pattern.
C17_Witness ==
  /\ ApplyDone
  /\ LogHas("writeConfig")
  /\ config.coreVersion = "1.1.0"
  /\ pre.config.coreVersion = "1.0.0"
  /\ config.protectedFiles = <<GlobAssets>>

\* A filesystem Apply is suspended between its first backup and its return.
ApplySuspendedMidway ==
  /\ parked # NoParked
  /\ parked[1].loc.op = "applyFs"
  /\ parked[1].pc \notin {"idle", "done"}
  /\ \E i \in 1..Len(parked[1].log) : parked[1].log[i].e = "backup"

\* C18 as stated: while a filesystem Apply is between its first backup and
\* its return, no other Apply backs up or writes a target file.
C18_AppliesMutuallyExcluded ==
  ApplySuspendedMidway =>
    ~(loc.op = "applyFs" /\ \E i \in 1..Len(log) : log[i].e \in {"backup", "write"})

\* C19 as stated: every network call of a Check or an Apply has a timeout, so
\* a request whose call got no answer has returned, with the gateway-timeout
\* error; no request is left awaiting.
C19_UnansweredCallTimesOut ==
  /\ pc # "hung"
  /\ LogHas("noResponse") => (pc = "done" /\ result.kind = "gatewayTimeout")

RequestOps == {"check", "applyFs", "applyGh"}

\* C20: a request of the check endpoint or of an apply endpoint whose
\* authentication fails is answered with the authentication rejection and
\* nothing else has run: the state record was not looked at (the answer is
\* the same without it and reveals no version), no manifest was fetched, no
\* file backed up or written, nothing committed, no redeploy triggered.
C20_UnauthenticatedRejectedFirst ==
  (loc.op \in RequestOps /\ ~loc.authOk) =>
     /\ pc = "done"
     /\ result.status = 401
     /\ result.kind = "unauthorized"
     /\ ~result.success
     /\ result.current = "null"
     /\ result.latest = "null"
     /\ log = <<>>
     /\ disk = pre.disk
     /\ config = pre.config
     /\ repo = pre.repo
     /\ ~loc.redeployTriggered

\* An unauthenticated Check of an instance without vozsmart.config.json.
C20_Witness ==
  /\ CheckDone
  /\ ~loc.authOk
  /\ ~config.present
  /\ result.status = 401

\* The redeploy step of a remote Apply is over, with this outcome.
RedeployRan == loc.op = "applyGh" /\ loc.redeploy # "none"

\* C21: the redeploy trigger of a remote Apply is best-effort.  Whether the
\* platform API call or the deploy-hook call succeeds, fails, throws or is not
\* configured, the branch keeps the two commits of the Apply, the local files
\* and state record are untouched, and the response is the one the Apply
\* gives without a redeploy; the outcome only sets redeployTriggered, which
\* is true exactly when the trigger call that was made reported success.
C21_RedeployBestEffort ==
  /\ RedeployRan =>
       /\ loc.redeployTriggered <=> loc.redeploy \in {"apiOk", "hookOk"}
       /\ BothCommitsLanded
       /\ Len(repo.commits) = Len(pre.repo.commits) + 2
       /\ repo.config.coreVersion = manifest.version
       /\ BatchLanded
       /\ config = pre.config
       /\ disk = pre.disk
       /\ pc \in {"ghRespond", "done"}
       /\ pc = "done" =>
            LET r == ApplyGhResponse([loc EXCEPT !.redeploy = "notConfigured",
                                                 !.redeployTriggered = FALSE])
            IN  /\ result.status = r.status
                /\ result.success = r.success
                /\ result.kind = r.kind
                /\ result.version = r.version
                /\ result.filesUpdated = r.filesUpdated
                /\ result.redeployTriggered => loc.redeployTriggered
  /\ (loc.op = "applyGh" /\ ~RedeployRan) => ~loc.redeployTriggered

\* A remote Apply has returned after its platform API call threw.
C21_Witness ==
  /\ RedeployRan
  /\ pc = "done"
  /\ loc.redeploy = "apiThrew"
  /\ repo.config.coreVersion = "1.1.0"

\* The installed version of the state record the Apply's mode maintains.
InstalledAfter == IF loc.op = "applyFs" THEN config.coreVersion ELSE repo.config.coreVersion

\* C22 as stated: an Apply (either mode) of a manifest with an empty file
\* list and a version different from the installed one, whose state-record
\* write or commit went through, returns success, has written or committed no
\* target file, and leaves the installed version at the manifest version.
C22_EmptyListApplySucceeds ==
  (ApplyDone /\ ReachedManifest /\ manifest.filesToUpdate = <<>>
     /\ pre.config.coreVersion # manifest.version
     /\ (LogHas("writeConfig") \/ LogHas("putConfig"))) =>
     /\ result.success
     /\ result.kind = "applied"
     /\ result.version = manifest.version
     /\ \A i \in 1..Len(log) : log[i].e \notin TargetEvents
     /\ InstalledAfter = manifest.version

\* The downloads and writes of the write loop, succeeded or failed.
WriteLoopEvents == {"download", "downloadFailed", "write", "writeFailed"}

\* C23 as stated: in a filesystem Apply, once the download or the write of a
\* target file has failed, no later file of the list is downloaded or
\* written: the write phase stops at the first failure.
C23_WritePhaseStopsAtFirstFailure ==
  loc.op = "applyFs" =>
    \A i \in 1..Len(log) :
       log[i].e \in FailureEvents =>
         \A j \in (i + 1)..Len(log) : log[j].e \notin WriteLoopEvents

ConfigWrites == {"writeConfig", "writeConfigFailed"}

\* C24: the steps of a filesystem Apply are ordered.  Every backup copy
\* precedes the first download or write of a target file, and by then every
\* target file that existed has its copy in the backup directory; the state
\* record is written only after every target file has been written
\* successfully, and it is the last operation of the Apply; when a file
\* failed, the state record is not written.
C24_BackupThenWriteThenRecord ==
  loc.op = "applyFs" =>
    /\ \A i \in 1..Len(log) :
         log[i].e = "backup" =>
           \A j \in 1..Len(log) : log[j].e \in WriteLoopEvents \cup ConfigWrites => i < j
    /\ (\E j \in 1..Len(log) : log[j].e \in WriteLoopEvents \cup ConfigWrites) =>
         \A k \in 1..Len(loc.files) :
            LET p == normalizePath(loc.files[k])
            IN  pre.disk[p] # Absent =>
                  /\ \E i \in 1..Len(log) : log[i].e = "backup" /\ log[i].p = p
                  /\ backupDir[p] = pre.disk[p]
    /\ \A i \in 1..Len(log) :
         log[i].e \in ConfigWrites =>
           /\ i = Len(log)
           /\ pc = "done"
           /\ \A j \in 1..Len(log) : log[j].e \notin FailureEvents
           /\ LogCount("write") = Len(loc.files)
           /\ \A k \in 1..Len(loc.files) : disk[normalizePath(loc.files[k])] = NewContent
    /\ (\E i \in 1..Len(log) : log[i].e \in FailureEvents) =>
         /\ \A j \in 1..Len(log) : log[j].e \notin ConfigWrites
         /\ config = pre.config

\* A filesystem Apply that backed up a file, wrote two files and then wrote
\* the state record.
C24_Witness ==
  /\ pc = "done"
  /\ loc.op = "applyFs"
  /\ LogHas("backup")
  /\ LogCount("write") = 2
  /\ log[Len(log)].e = "writeConfig"

RollbackEvents == {"rollback", "rollbackFailed"}

\* The rollback steps of the log, in order.
RollbackSteps == SelectSeq(log, LAMBDA ev : ev.e \in RollbackEvents)

\* C25: a rollback step that fails does not end the rollback and does not
\* change the outcome.  When a filesystem Apply in which a file failed has
\* returned, there is one rollback step for each written file, in the order
\* they were written, whether or not earlier steps failed; every file with a
\* successful step is as it was before the Apply (its backed-up content, or
\* absent when it had no backup); and the result is the rolled-back failure
\* listing the failed files.
C25_RollbackContinuesPastFailure ==
  FsRolledBack =>
    /\ Len(RollbackSteps) = Len(loc.updatedFiles)
    /\ \A k \in 1..Len(loc.updatedFiles) : RollbackSteps[k].p = loc.updatedFiles[k]
    /\ \A i \in 1..Len(log) : log[i].e = "rollback" => disk[log[i].p] = pre.disk[log[i].p]
    /\ result.status = 500
    /\ result.kind = "rolledBack"
    /\ ~result.success
    /\ result.failed = loc.failedFiles
    /\ config = pre.config

\* A rollback whose first step failed and whose second step restored a file.
C25_Witness ==
  /\ FsRolledBack
  /\ Len(RollbackSteps) = 2
  /\ RollbackSteps[1].e = "rollbackFailed"
  /\ RollbackSteps[2].e = "rollback"
  /\ RollbackSteps[1].p # RollbackSteps[2].p

\* The calls a remote Apply makes to the repository: the Git Database calls
\* of the batched commit and the contents calls for the state record.
RepositoryCalls ==
  GitDataSteps \cup GitDataFailures \cup RefUpdates
  \cup {"getConfig", "getConfigFailed", "putConfig", "putConfigFailed"}

\* C26: in a remote Apply every download precedes the first call to the
\* repository, and by that call every target file has been downloaded; when
\* a download fails the Apply returns the error at once: no blob, tree or
\* commit is created, the branch reference and the state record of the
\* branch are as before, and no redeploy is triggered.
C26_DownloadsBeforeRemoteCalls ==
  loc.op = "applyGh" =>
    /\ \A i \in 1..Len(log) :
         log[i].e \in {"download", "downloadFailed"} =>
           \A j \in 1..Len(log) : log[j].e \in RepositoryCalls \cup {"redeploy"} => i < j
    /\ (\E j \in 1..Len(log) : log[j].e \in RepositoryCalls) =>
         /\ LogCount("download") = Len(loc.files)
         /\ \A k \in 1..Len(loc.files) :
              \E i \in 1..Len(log) :
                 log[i].e = "download" /\ log[i].p = normalizePath(loc.files[k])
    /\ LogHas("downloadFailed") =>
         /\ pc = "done"
         /\ result.status = 500
         /\ result.kind = "error"
         /\ ~result.success
         /\ log[Len(log)].e = "downloadFailed"
         /\ \A j \in 1..Len(log) : log[j].e \notin RepositoryCalls \cup {"redeploy"}
         /\ repo = pre.repo
         /\ loc.redeploy = "none"
         /\ ~loc.redeployTriggered

\* A remote Apply that ended on the failed download of its second file.
C26_Witness ==
  /\ pc = "done"
  /\ loc.op = "applyGh"
  /\ LogHas("download")
  /\ LogHas("downloadFailed")

\* The probe entries that normalizePath rejects.
RejectedPaths == {p \in ProbePaths : normalizePath(p) = Null}

Rejected(filePath) == filePath \in RejectedPaths

\* C27: path protection fails closed.  For every entry that normalizePath
\* rejects (empty, not a string, absolute, with '..' left after
\* normalization) and every configured pattern list, isProtectedFile returns
\* true; validateFilesToUpdate reports every such entry in blocked, as
\* written, and is not valid; and for a manifest listing one, Check answers
\* with the security error and Apply (either mode) is refused before any file
\* is touched.
C27_RejectedPathFailsClosed ==
  /\ (Returned("isProtectedFile") /\ Rejected(loc.filePath)) => result = TRUE
  /\ Returned("validateFilesToUpdate") =>
       /\ \A k \in 1..Len(manifest.filesToUpdate) :
            Rejected(manifest.filesToUpdate[k]) =>
              \E i \in 1..Len(result.blocked) : result.blocked[i] = manifest.filesToUpdate[k]
       /\ (\E k \in 1..Len(manifest.filesToUpdate) : Rejected(manifest.filesToUpdate[k])) =>
            /\ ~result.valid
            /\ LET checked == CheckResponse(TRUE, config, "ok", manifest)
               IN  checked.status = 403 /\ checked.kind = "security"
            /\ \A op \in ApplyOps :
                 LET early == ApplyPrecheck(op, TRUE, config, "ok", manifest)
                 IN  early.status = 403 /\ early.blocked = result.blocked

\* An absolute path listed after an ordinary file is the one blocked entry.
C27_Witness ==
  /\ Returned("validateFilesToUpdate")
  /\ manifest.filesToUpdate = <<PLibFoo, PAbsolute>>
  /\ config.protectedFiles = <<GlobAssets>>
  /\ result.blocked = <<PAbsolute>>

\* isProtectedFile of each probe path under each concatenation of two
\* configured pattern lists.
ProtectedUnder ==
  [p \in ProbePaths, pats \in {A \o B : A \in ProbePatternLists, B \in ProbePatternLists} |->
     isProtectedFile(p, pats)]

\* C28: isProtectedFile is monotone in the configured patterns and does not
\* depend on their order: a path protected under a list A is protected under
\* A followed by any list B, and A followed by B gives the same answer as B
\* followed by A.
C28_PatternsMonotone ==
  Returned("isProtectedFile") =>
    \A B \in ProbePatternLists :
       /\ result = TRUE => ProtectedUnder[loc.filePath, config.protectedFiles \o B]
       /\ ProtectedUnder[loc.filePath, config.protectedFiles \o B]
            = ProtectedUnder[loc.filePath, B \o config.protectedFiles]

\* lib/foo.ts, protected by lib/*.ts alone, and still protected when the
\* pattern assets/** follows it.
C28_Witness ==
  /\ Returned("isProtectedFile")
  /\ loc.filePath = PLibFoo
  /\ config.protectedFiles = <<GlobLibTs>>
  /\ result = TRUE
  /\ ~isProtectedFile(PLibFoo, <<GlobAssets>>)
  /\ isProtectedFile(PLibFoo, <<GlobLibTs>> \o <<GlobAssets>>)

C30_ServerlessNeverSucceeds ==
  (serverless /\ loc.op = "applyFs") =>
    /\ ~result.success
    /\ result.kind # "applied"
    /\ config = pre.config
    /\ config.coreVersion = pre.config.coreVersion
    /\ disk = pre.disk
    /\ ~LogHas("write")
    /\ ~LogHas("writeConfig")
    /\ pc = "done" => result.status >= 400
    /\ (pc = "done" /\ (LogHas("writeFailed") \/ LogHas("writeConfigFailed"))) =>
         /\ result.status = 500
         /\ result.kind \in {"rolledBack", "error"}

\* A version-only manifest applied on a serverless runtime: the state-record
\* write fails and the Apply answers 500.
C30_Witness ==
  /\ serverless
  /\ pc = "done"
  /\ loc.op = "applyFs"
  /\ manifest.filesToUpdate = <<>>
  /\ LogHas("writeConfigFailed")
  /\ result.status = 500

====
